---- MODULE Spec2Model ----
(***************************************************************************)
(* A model of data-scraper.py: the directory scan, the bank file-set       *)
(* consistency check, the per-category merge, the duplicate reconciler,    *)
(* the PAC enricher, the dataset summariser and the run orchestrator.      *)
(*                                                                         *)
(* Text (file names, cell values, column names, bank identifiers) is a     *)
(* sequence of one-character strings, so that the regular expressions,     *)
(* strip, zfill, endswith, upper, join and the ordering of str are         *)
(* computed character by character as Python computes them.  Exception     *)
(* messages are sequences of words.                                        *)
(***************************************************************************)
EXTENDS Integers, Sequences, FiniteSets, TLC

(***************************************************************************)
(* Bounds of the model.                                                    *)
(***************************************************************************)
MaxDirFiles == 4
MaxMergeFiles == 3
MaxDedupRows == 3
MaxPacRows == 2

(***************************************************************************)
(* Characters and text.                                                    *)
(***************************************************************************)
Digits == {"0", "1", "2", "3", "4", "5", "6", "7", "8", "9"}

\* The characters str.strip() removes among those the model uses.
Whitespace == {" "}

\* ord() of the characters the model sorts, in ASCII order.
CharOrder == <<" ", "#", ".", "0", "1", "2", "3", "4", "5", "6", "7", "8", "9", ":",
               "@", "A", "B", "C", "D", "E", "F", "G", "H", "I", "J", "K", "L", "M",
               "N", "O", "P", "Q", "R", "S", "T", "U", "V", "W", "X", "Y", "Z", "_",
               "a", "b", "c", "d", "e", "f", "g", "h", "i", "j", "k", "l", "m",
               "n", "o", "p", "q", "r", "s", "t", "u", "v", "w", "x", "y", "z", "|">>

Ord(c) == CHOOSE i \in 1..Len(CharOrder) : CharOrder[i] = c

\* a < b for two str values (lexicographic on code points).
RECURSIVE TextLess(_, _)
TextLess(a, b) ==
    IF b = <<>> THEN FALSE
    ELSE IF a = <<>> THEN TRUE
    ELSE IF a[1] = b[1] THEN TextLess(Tail(a), Tail(b))
    ELSE Ord(a[1]) < Ord(b[1])

\* sorted(S) for a set of str values.
RECURSIVE SortedTexts(_)
SortedTexts(S) ==
    IF S = {} THEN <<>>
    ELSE LET m == CHOOSE x \in S : \A y \in S \ {x} : TextLess(x, y)
         IN <<m>> \o SortedTexts(S \ {m})

\* str.upper() on the letters the model uses.
UpperChar(c) ==
    CASE c = "o" -> "O"
      [] c = "b" -> "B"
      [] c = "s" -> "S"
      [] c = "c" -> "C"
      [] c = "v" -> "V"
      [] OTHER -> c

Upper(s) == [i \in 1..Len(s) |-> UpperChar(s[i])]

\* sub in s, for str values.
Contains(s, sub) ==
    \E i \in 1..(Len(s) - Len(sub) + 1) : SubSeq(s, i, i + Len(sub) - 1) = sub

\* s.endswith(suffix)
EndsWith(s, suffix) ==
    /\ Len(suffix) <= Len(s)
    /\ SubSeq(s, Len(s) - Len(suffix) + 1, Len(s)) = suffix

\* s.strip()
RECURSIVE LStrip(_)
LStrip(s) == IF s # <<>> /\ s[1] \in Whitespace THEN LStrip(Tail(s)) ELSE s

RECURSIVE RStrip(_)
RStrip(s) ==
    IF s # <<>> /\ s[Len(s)] \in Whitespace THEN RStrip(SubSeq(s, 1, Len(s) - 1)) ELSE s

Strip(s) == RStrip(LStrip(s))

\* sep.join(parts)
RECURSIVE Join(_, _)
Join(sep, parts) ==
    IF parts = <<>> THEN <<>>
    ELSE IF Len(parts) = 1 THEN parts[1]
    ELSE parts[1] \o sep \o Join(sep, Tail(parts))

\* The elements of a sequence, and a sequence without its repetitions.
Range(s) == {s[i] : i \in 1..Len(s)}

SelectIdx(s, keep) ==
    LET F[i \in 0..Len(s)] ==
            IF i = 0 THEN <<>>
            ELSE IF i \in keep THEN Append(F[i - 1], s[i]) ELSE F[i - 1]
    IN F[Len(s)]

(***************************************************************************)
(* scan_bank_files and check_bank_file_consistency.                        *)
(***************************************************************************)
\* The pattern \.B\d{4}\. matches s at position i.
BankPatternAt(s, i) ==
    /\ i + 6 <= Len(s)
    /\ s[i] = "."
    /\ s[i + 1] = "B"
    /\ \A k \in 2..5 : s[i + k] \in Digits
    /\ s[i + 6] = "."

\* pattern.search(fname): the position of the leftmost match, 0 for no match.
BankPatternSearch(s) ==
    IF \E i \in 1..Len(s) : BankPatternAt(s, i)
    THEN CHOOSE i \in 1..Len(s) :
            BankPatternAt(s, i) /\ \A j \in 1..(i - 1) : ~BankPatternAt(s, j)
    ELSE 0

\* match.group(1)
BankIdGroup(s, i) == SubSeq(s, i + 2, i + 5)

\* re.sub(r'\.B\d{4}\.', '.B####.', f): every non-overlapping match, left to right.
RECURSIVE MaskFrom(_, _)
MaskFrom(s, i) ==
    IF i > Len(s) THEN <<>>
    ELSE IF BankPatternAt(s, i)
         THEN <<".", "B", "#", "#", "#", "#", ".">> \o MaskFrom(s, i + 7)
         ELSE <<s[i]>> \o MaskFrom(s, i + 1)

MaskBankId(f) == MaskFrom(f, 1)

\* A dict in insertion order is a sequence of [key, value] entries.
DictKeys(d) == [i \in 1..Len(d) |-> d[i].key]

DictHas(d, k) == \E i \in 1..Len(d) : d[i].key = k

DictGet(d, k, default) ==
    IF DictHas(d, k) THEN d[CHOOSE i \in 1..Len(d) : d[i].key = k].value ELSE default

DictSet(d, k, v) ==
    IF DictHas(d, k)
    THEN [i \in 1..Len(d) |-> IF d[i].key = k THEN [key |-> k, value |-> v] ELSE d[i]]
    ELSE Append(d, [key |-> k, value |-> v])

\* scan_bank_files(directory) over the names os.listdir returns.
RECURSIVE ScanNames(_, _)
ScanNames(names, bank_file_map) ==
    IF names = <<>> THEN bank_file_map
    ELSE LET fname == Head(names)
             pos == BankPatternSearch(fname)
         IN IF pos # 0
            THEN LET bank_id == BankIdGroup(fname, pos)
                 IN ScanNames(Tail(names),
                        DictSet(bank_file_map, bank_id,
                                Append(DictGet(bank_file_map, bank_id, <<>>), fname)))
            ELSE ScanNames(Tail(names), bank_file_map)

scan_bank_files(names) == ScanNames(names, <<>>)

\* MaskedSet without the masking: the names as they are.
UnmaskedSet(files) == Range(files)

MaskedSet(files) == {MaskBankId(f) : f \in Range(files)}

\* lines 64-72: the loop over the banks from entry i on; the first bank whose
\* masked set differs from the reference's raises ValueError.
RECURSIVE CheckBanksFrom(_, _, _)
CheckBanksFrom(bank_file_map, i, reference_files) ==
    IF i > Len(bank_file_map) THEN "ok"
    ELSE IF MaskedSet(bank_file_map[i].value) # reference_files THEN "ValueError"
    ELSE CheckBanksFrom(bank_file_map, i + 1, reference_files)

\* check_bank_file_consistency finding nothing to compare in an empty dict.
check_without_reference(bank_file_map) ==
    IF bank_file_map = <<>> THEN "ok"
    ELSE CheckBanksFrom(bank_file_map, 1, MaskedSet(bank_file_map[1].value))

\* check_bank_file_consistency: "ok", or the exception raised.
\* next(iter(bank_file_map)) raises StopIteration on an empty dict.
check_bank_file_consistency(bank_file_map) ==
    IF bank_file_map = <<>> THEN "StopIteration"
    ELSE CheckBanksFrom(bank_file_map, 1, MaskedSet(bank_file_map[1].value))

\* list_bank_files_by_type(bank_file_map, bank_id, file_ext, exclude_obs=True)
list_bank_files_by_type(bank_file_map, bank_id, file_ext) ==
    LET all_files == DictGet(bank_file_map, bank_id, <<>>)
    IN SelectIdx(all_files,
                 {i \in 1..Len(all_files) :
                    /\ EndsWith(all_files[i], file_ext)
                    /\ ~Contains(Upper(all_files[i]), <<"O", "B", "S">>)})

(***************************************************************************)
(* Tables.  A DataFrame of text columns is its column names in order and   *)
(* its rows in order, every row holding one value per column.  A value is  *)
(* a str or NaN (pandas' missing value).                                   *)
(***************************************************************************)
NaN == <<"NaN">>
J == <<"J">>
N == <<"N">>
EmptyText == <<>>

\* pd.DataFrame()
EmptyFrame == [columns |-> <<>>, data |-> <<>>]

\* df.empty: one of the axes has length 0.
IsEmpty(df) == Len(df.columns) = 0 \/ Len(df.data) = 0

HasColumn(df, col) == col \in Range(df.columns)

ColumnIndex(df, col) == CHOOSE i \in 1..Len(df.columns) : df.columns[i] = col

\* df[col] as the sequence of its values
ColumnValues(df, col) ==
    LET c == ColumnIndex(df, col) IN [r \in 1..Len(df.data) |-> df.data[r][c]]

\* df[col] = value (a scalar): overwrites an existing column, else appends one.
SetColumn(df, col, value) ==
    IF HasColumn(df, col)
    THEN LET c == ColumnIndex(df, col)
         IN [df EXCEPT !.data =
                [r \in 1..Len(df.data) |-> [df.data[r] EXCEPT ![c] = value]]]
    ELSE [columns |-> Append(df.columns, col),
          data |-> [r \in 1..Len(df.data) |-> Append(df.data[r], value)]]

\* df.drop(columns=[col])
DropColumn(df, col) ==
    LET keep == SelectIdx([i \in 1..Len(df.columns) |-> i],
                          {i \in 1..Len(df.columns) : df.columns[i] # col})
    IN [columns |-> [i \in 1..Len(keep) |-> df.columns[keep[i]]],
        data |-> [r \in 1..Len(df.data) |->
                     [i \in 1..Len(keep) |-> df.data[r][keep[i]]]]]

\* df[cols]
SelectColumns(df, cols) ==
    [columns |-> cols,
     data |-> [r \in 1..Len(df.data) |->
                  [i \in 1..Len(cols) |-> df.data[r][ColumnIndex(df, cols[i])]]]]

\* pd.concat([a, b], ignore_index=True): the columns of a, then those only b
\* has; a value a frame lacks is NaN.
Concat(a, b) ==
    LET extra == SelectIdx(b.columns, {i \in 1..Len(b.columns) : ~HasColumn(a, b.columns[i])})
        cols == a.columns \o extra
        Cell(df, r, col) == IF HasColumn(df, col)
                            THEN df.data[r][ColumnIndex(df, col)] ELSE NaN
    IN [columns |-> cols,
        data |-> [r \in 1..Len(a.data) |-> [i \in 1..Len(cols) |-> Cell(a, r, cols[i])]]
                 \o [r \in 1..Len(b.data) |-> [i \in 1..Len(cols) |-> Cell(b, r, cols[i])]]]

(***************************************************************************)
(* Exceptions: a message is a sequence of words.                           *)
(***************************************************************************)
\* str.lower() on the capitalised words of the messages.
LowerWord(w) ==
    CASE w = "No" -> "no"
      [] w = "Bank" -> "bank"
      [] w = "Error" -> "error"
      [] w = "C" -> "c"
      [] w = "Expected" -> "expected"
      [] OTHER -> w

Lower(msg) == [i \in 1..Len(msg) |-> LowerWord(msg[i])]

\* pandas.errors.EmptyDataError for a file without a header line
EmptyDataError == <<"No", "columns", "to", "parse", "from", "file">>

\* pandas.errors.ParserError for a line with more fields than the lines before
ParserError == <<"Error", "tokenizing", "data.", "C", "error:", "Expected",
                 "fields", "in", "line,", "saw", "more">>

\* the ValueError line 86 raises
NoDataError == <<"Bank", "does", "not", "have", "category", "types", "(", "no", "data", ")">>

\* IndexError of df.iloc[0, 2] on a frame of fewer than three columns
OutOfBoundsError == <<"index", "2", "is", "out", "of", "bounds", "for", "axis", "0",
                      "with", "size", "n">>

\* AttributeError of NaN.strip()
NoStripError == <<"'float'", "object", "has", "no", "attribute", "'strip'">>

\* KeyError of df.sort_values(by=key_column) on a frame without that column
KeyError == <<"'Kundenummer'">>

\* the messages line 102 classifies as "no data"
NoDataMessages == {<<"no", "columns", "to", "parse">>, <<"out", "of", "bounds">>,
                   <<"no", "data">>}

(***************************************************************************)
(* pd.read_csv(file_path, sep=";", encoding="latin1", dtype=str)           *)
(* A file is its header fields and its lines of fields; ragged marks a     *)
(* line longer than the lines before it.                                   *)
(***************************************************************************)
\* the field texts read_csv takes for a missing value, among the model's texts
NaValues == {<<>>, <<"N", "A">>}

read_csv(file) ==
    IF file.ragged THEN [raised |-> TRUE, exc |-> ParserError, df |-> EmptyFrame]
    ELSE IF file.header = <<>>
    THEN [raised |-> TRUE, exc |-> EmptyDataError, df |-> EmptyFrame]
    ELSE [raised |-> FALSE, exc |-> <<>>,
          df |-> [columns |-> file.header,
                  data |-> [r \in 1..Len(file.lines) |->
                               [c \in 1..Len(file.header) |->
                                   IF file.lines[r][c] \in NaValues THEN NaN
                                   ELSE file.lines[r][c]]]]]

(***************************************************************************)
(* process_csv_files_for_bank                                              *)
(***************************************************************************)
\* summary_report's default entry; stats is <<>> until summarize_dataset sets it
DefaultEntry == [merged |-> <<>>, errors |-> <<>>, columns |-> <<>>, missing |-> <<>>,
                 stats |-> <<>>]

\* lines 90-92: every column of merged_df the file lacks, filled with "N"
RECURSIVE FillMissing(_, _)
FillMissing(df, cols) ==
    IF cols = <<>> THEN df
    ELSE FillMissing(IF HasColumn(df, Head(cols)) THEN df ELSE SetColumn(df, Head(cols), N),
                     Tail(cols))

\* lines 87-97: the file's frame merged into merged_df
MergeFrame(merged_df, df) ==
    LET category_value == Strip(df.data[1][3])
        flagged == SetColumn(df, category_value, J)
        dropped == DropColumn(flagged, flagged.columns[3])
        filled == FillMissing(dropped, merged_df.columns)
        widened == FillMissing(merged_df, filled.columns)
        ordered == IF ~IsEmpty(widened) THEN SelectColumns(filled, widened.columns)
                   ELSE filled
    IN [merged_df |-> Concat(widened, ordered), category_value |-> category_value]

\* lines 84-87: the exception the try block raises for the file, <<>> for none
FileException(file) ==
    LET r == read_csv(file)
    IN IF r.raised THEN r.exc
       ELSE IF IsEmpty(r.df) THEN NoDataError
       ELSE IF Len(r.df.columns) < 3 THEN OutOfBoundsError
       ELSE IF r.df.data[1][3] = NaN THEN NoStripError
       ELSE <<>>

\* line 102 comparing the whole message instead of searching it.
IsNoDataMessageExact(exc) == Lower(exc) \in NoDataMessages

\* line 102
IsNoDataMessage(exc) == \E msg \in NoDataMessages : Contains(Lower(exc), msg)

\* One iteration of the loop of lines 81-107 on st = [merged_df, entry].
ProcessFile(st, filename, file) ==
    LET exc == FileException(file)
    IN IF exc = <<>>
       THEN LET m == MergeFrame(st.merged_df, read_csv(file).df)
            IN [merged_df |-> m.merged_df,
                entry |-> [st.entry EXCEPT !.merged = Append(@, m.category_value)]]
       ELSE IF IsNoDataMessage(exc)
       THEN [st EXCEPT !.entry.missing = Append(@, filename)]
       ELSE [st EXCEPT !.entry.errors = Append(@, filename)]

\* process_csv_files_for_bank(directory, file_list, bank_id), files being the
\* directory's content by file name
RECURSIVE ProcessFiles(_, _, _)
ProcessFiles(st, file_list, files) ==
    IF file_list = <<>> THEN st
    ELSE ProcessFiles(ProcessFile(st, Head(file_list), files[Head(file_list)]),
                      Tail(file_list), files)

\* process_csv_files_for_bank starting from a fresh entry of the bank.
process_csv_files_fresh_entry(files, file_list, entry) ==
    ProcessFiles([merged_df |-> EmptyFrame, entry |-> DefaultEntry], file_list, files)

process_csv_files_for_bank(files, file_list, entry) ==
    ProcessFiles([merged_df |-> EmptyFrame, entry |-> entry], file_list, files)

(***************************************************************************)
(* identify_dynamic_columns and merge_grouped_duplicates                   *)
(***************************************************************************)
KeyColumn == <<"K", "u", "n", "d", "e", "n", "u", "m", "m", "e", "r">>

SampleSize == 100

\* df.sample(n=sample_size, random_state=42): rows fixed by the seed and the
\* length of the frame.  Frames of the model have at most SampleSize rows.
SampleRows(n) ==
    IF n <= SampleSize THEN 1..n
    ELSE CHOOSE S \in SUBSET (1..n) : Cardinality(S) = SampleSize

identify_dynamic_columns(df) ==
    LET sample == SampleRows(Len(df.data))
    IN SelectIdx(df.columns,
                 {c \in 1..Len(df.columns) :
                    {df.data[r][c] : r \in sample} \ {NaN} \subseteq {J, N, EmptyText}})

\* The rows of key k in the order df.sort_values(by=key_column) leaves them:
\* the sort keeps equal keys in their order for frames this small.
GroupRows(df, k) ==
    LET kc == ColumnIndex(df, KeyColumn)
        idx == SelectIdx([r \in 1..Len(df.data) |-> r], {r \in 1..Len(df.data) : df.data[r][kc] = k})
    IN [i \in 1..Len(idx) |-> df.data[idx[i]]]

\* group[col].dropna().iloc[0]
FirstNotNa(group, c) ==
    group[CHOOSE i \in 1..Len(group) :
            group[i][c] # NaN /\ \A j \in 1..(i - 1) : group[j][c] = NaN][c]

\* merge_group keeping the first row's flags.
merge_group_first_flags(df, dynamic_cols, group) ==
    [c \in 1..Len(df.columns) |->
        IF df.columns[c] \in Range(dynamic_cols)
        THEN group[1][c]
        ELSE IF \E i \in 1..Len(group) : group[i][c] # NaN
             THEN FirstNotNa(group, c)
             ELSE group[1][c]]

\* merge_group keeping the first row's fixed values.
merge_group_first_row(df, dynamic_cols, group) ==
    [c \in 1..Len(df.columns) |->
        IF df.columns[c] \in Range(dynamic_cols)
        THEN IF \E i \in 1..Len(group) : group[i][c] = J THEN J ELSE N
        ELSE group[1][c]]

\* merge_group(group), lines 118-125
merge_group(df, dynamic_cols, group) ==
    [c \in 1..Len(df.columns) |->
        IF df.columns[c] \in Range(dynamic_cols)
        THEN IF \E i \in 1..Len(group) : group[i][c] = J THEN J ELSE N
        ELSE IF \E i \in 1..Len(group) : group[i][c] # NaN
             THEN FirstNotNa(group, c)
             ELSE group[1][c]]

\* merge_grouped_duplicates(df): sort_values raises KeyError on a frame
\* without the key column; groupby drops the rows whose key is NaN and
\* yields the groups in sorted key order.
merge_grouped_duplicates(df) ==
    IF ~HasColumn(df, KeyColumn) THEN [raised |-> TRUE, exc |-> KeyError, df |-> df]
    ELSE LET dynamic_cols == identify_dynamic_columns(df)
             keys == SortedTexts(Range(ColumnValues(df, KeyColumn)) \ {NaN})
         IN [raised |-> FALSE, exc |-> <<>>,
             df |-> [columns |-> df.columns,
                     data |-> [g \in 1..Len(keys) |->
                                  merge_group(df, dynamic_cols, GroupRows(df, keys[g]))]]]

(***************************************************************************)
(* summarize_dataset.  It adds the column Category_Count to the caller's   *)
(* frame in place (line 133); the column's cells are integers.  The frame  *)
(* returned here is the caller's frame after the call, the one to_excel    *)
(* writes.                                                                 *)
(***************************************************************************)
CategoryCountColumn ==
    <<"C", "a", "t", "e", "g", "o", "r", "y", "_", "C", "o", "u", "n", "t">>

RECURSIVE CountJ(_)
CountJ(values) ==
    IF values = <<>> THEN 0
    ELSE (IF Head(values) = J THEN 1 ELSE 0) + CountJ(Tail(values))

summarize_dataset(df, entry) ==
    LET dynamic_cols ==
            SelectIdx(df.columns,
                      {c \in 1..Len(df.columns) :
                         {df.data[r][c] : r \in 1..Len(df.data)} \ {NaN} \subseteq {J, N}})
        static_cols ==
            SelectIdx(df.columns, {c \in 1..Len(df.columns) : df.columns[c] \notin Range(dynamic_cols)})
        category_count ==
            [r \in 1..Len(df.data) |->
                CountJ([i \in 1..Len(dynamic_cols) |->
                           df.data[r][ColumnIndex(df, dynamic_cols[i])]])]
        multi_category == Cardinality({r \in 1..Len(df.data) : category_count[r] > 1})
    IN [df |-> [columns |-> Append(df.columns, CategoryCountColumn),
                data |-> [r \in 1..Len(df.data) |->
                            Append(df.data[r], category_count[r])]],
        entry |-> [entry EXCEPT
                     !.columns = dynamic_cols \o static_cols,
                     !.stats = <<[total_rows |-> Len(df.data),
                                  total_columns |-> Len(df.columns),
                                  static_cols |-> static_cols,
                                  dynamic_cols |-> dynamic_cols,
                                  multi_category |-> multi_category]>>]]

(***************************************************************************)
(* enrich_with_pac_data.  The PAC export is its rows in order, every row   *)
(* a record of the five columns read, each a str or NaN.                   *)
(***************************************************************************)
ZfillWidth == 11

\* str.zfill(width)
RECURSIVE Zeros(_)
Zeros(n) == IF n <= 0 THEN <<>> ELSE <<"0">> \o Zeros(n - 1)

Zfill(s, width) ==
    IF Len(s) >= width THEN s
    ELSE IF s # <<>> /\ s[1] \in {"+", "-"}
    THEN <<s[1]>> \o Zeros(width - Len(s)) \o Tail(s)
    ELSE Zeros(width - Len(s)) \o s

\* astype(str): NaN becomes the text nan
AsStr(v) == IF v = NaN THEN <<"n", "a", "n">> ELSE v

AvtaleColumn == <<"A", "V", "T", "A", "L", "E", "_", "I", "D", "s">>

UsersColumn == <<"U", "s", "e", "r", "s", "_", "P", "E", "R", "S", "O", "N", "N", "R", ":",
                 "B", "R", "U", "K", "E", "R", "T", "Y", "P", "E">>

\* lines 154-157
NormalizePac(rows) ==
    [i \in 1..Len(rows) |->
        [BANK_ID |-> AsStr(rows[i].BANK_ID),
         FORETAKSNR |-> Zfill(AsStr(rows[i].FORETAKSNR), ZfillWidth),
         PERSONNR |-> AsStr(rows[i].PERSONNR),
         AVTALE_ID |-> AsStr(rows[i].AVTALE_ID),
         BRUKERTYPE |-> rows[i].BRUKERTYPE]]

\* lines 168 and 170: "|".join(sorted(set(group["AVTALE_ID"])))
AvtaleLookup(pac_subset) ==
    [foretak \in {pac_subset[i].FORETAKSNR : i \in 1..Len(pac_subset)} |->
        Join(<<"|">>, SortedTexts({pac_subset[i].AVTALE_ID :
                                     i \in {j \in 1..Len(pac_subset) :
                                              pac_subset[j].FORETAKSNR = foretak}}))]

\* lines 169 and 171: "|".join of f"{PERSONNR}:{BRUKERTYPE}" in row order
UsersLookup(pac_subset) ==
    [foretak \in {pac_subset[i].FORETAKSNR : i \in 1..Len(pac_subset)} |->
        LET group == SelectIdx(pac_subset, {i \in 1..Len(pac_subset) :
                                             pac_subset[i].FORETAKSNR = foretak})
        IN Join(<<"|">>, [i \in 1..Len(group) |->
                            group[i].PERSONNR \o <<":">> \o AsStr(group[i].BRUKERTYPE)])]

\* df[col] = values, one value per row
SetColumnValues(df, col, values) ==
    LET placed == SetColumn(df, col, EmptyText)
        c == ColumnIndex(placed, col)
    IN [placed EXCEPT !.data =
            [r \in 1..Len(placed.data) |-> [placed.data[r] EXCEPT ![c] = values[r]]]]

\* df["Kundenummer"].map(lookup) without fillna("")
MapNoFill(df, lookup) ==
    LET kunde == ColumnValues(df, KeyColumn)
    IN [r \in 1..Len(kunde) |->
           IF kunde[r] \in DOMAIN lookup THEN lookup[kunde[r]] ELSE NaN]

\* df["Kundenummer"].map(lookup).fillna("")
MapFill(df, lookup) ==
    LET kunde == ColumnValues(df, KeyColumn)
    IN [r \in 1..Len(kunde) |->
           IF kunde[r] \in DOMAIN lookup THEN lookup[kunde[r]] ELSE EmptyText]

\* enrich_with_pac_data(df, bank_id, pac_file): pd.read_excel raises on a
\* file it cannot read.
enrich_with_pac_data(df, bank_id, pac_file) ==
    IF ~pac_file.readable THEN [raised |-> TRUE, df |-> df]
    ELSE LET pac_data == NormalizePac(pac_file.rows)
             pac_subset == SelectIdx(pac_data, {i \in 1..Len(pac_data) :
                                                       pac_data[i].BANK_ID = bank_id})
         IN IF pac_subset = <<>> THEN [raised |-> FALSE, df |-> df]
            ELSE [raised |-> FALSE,
                  df |-> SetColumnValues(
                           SetColumnValues(df, AvtaleColumn,
                                           MapFill(df, AvtaleLookup(pac_subset))),
                           UsersColumn, MapFill(df, UsersLookup(pac_subset)))]

(***************************************************************************)
(* run_pm_flow and run_bm_flow on summary_report, a dict of entries by     *)
(* bank.  outcome is "no_files" (the early return), "saved" or "raised".   *)
(***************************************************************************)
CsvExt == <<".", "C", "S", "V">>

BmExt == <<".", "C", "S", "V", ".", "B", "M">>

run_pm_flow(bank_id, files, bank_file_map, report) ==
    LET pm_files == list_bank_files_by_type(bank_file_map, bank_id, CsvExt)
        processed == process_csv_files_for_bank(files, pm_files,
                                                DictGet(report, bank_id, DefaultEntry))
        merged == merge_grouped_duplicates(processed.merged_df)
        summary == summarize_dataset(merged.df, processed.entry)
    IN IF pm_files = <<>>
       THEN [outcome |-> "no_files", report |-> report, output |-> <<>>]
       ELSE IF merged.raised
       THEN [outcome |-> "raised", report |-> DictSet(report, bank_id, processed.entry),
             output |-> <<>>]
       ELSE [outcome |-> "saved", report |-> DictSet(report, bank_id, summary.entry),
             output |-> <<summary.df>>]

run_bm_flow(bank_id, files, bank_file_map, report, pac) ==
    LET bm_files == list_bank_files_by_type(bank_file_map, bank_id, BmExt)
        processed == process_csv_files_for_bank(files, bm_files,
                                                DictGet(report, bank_id, DefaultEntry))
        merged == merge_grouped_duplicates(processed.merged_df)
        enriched == enrich_with_pac_data(merged.df, bank_id, pac)
        summary == summarize_dataset(enriched.df, processed.entry)
    IN IF bm_files = <<>>
       THEN [outcome |-> "no_files", report |-> report, output |-> <<>>]
       ELSE IF merged.raised \/ enriched.raised
       THEN [outcome |-> "raised", report |-> DictSet(report, bank_id, processed.entry),
             output |-> <<>>]
       ELSE [outcome |-> "saved", report |-> DictSet(report, bank_id, summary.entry),
             output |-> <<summary.df>>]

\* A flow's exception left to the outer handler.
FlowExceptOuter(outcome) == "fatal"

\* The except clauses of lines 274-275 and 279-280: an exception of a flow is
\* logged and the run goes on ("continue"); "fatal" would be the outer
\* handler of lines 284-286.
FlowExcept(outcome) == "continue"

(***************************************************************************)
(* The directory, the files and the PAC exports the runs of the model are  *)
(* given.                                                                  *)
(***************************************************************************)
Bank1234 == <<"1", "2", "3", "4">>

Bank5678 == <<"5", "6", "7", "8">>

Pm1234 == <<"X", ".", "B", "1", "2", "3", "4", ".", "A", ".", "C", "S", "V">>

Bm1234 == <<"X", ".", "B", "1", "2", "3", "4", ".", "A", ".", "C", "S", "V", ".", "B", "M">>

Pm5678 == <<"X", ".", "B", "5", "6", "7", "8", ".", "A", ".", "C", "S", "V">>

Bm5678 == <<"X", ".", "B", "5", "6", "7", "8", ".", "A", ".", "C", "S", "V", ".", "B", "M">>

Obs5678 == <<"X", ".", "B", "5", "6", "7", "8", ".", "o", "b", "s", ".", "C", "S", "V">>

Readme == <<"R", "E", "A", "D", "M", "E", ".", "T", "X", "T">>

DirUniverse == {Pm1234, Bm1234, Pm5678, Bm5678, Obs5678, Readme}

Navn == <<"N", "a", "v", "n">>

Kategori == <<"K", "a", "t", "e", "g", "o", "r", "i">>

Epost == <<"E", "p", "o", "s", "t">>

Retail == <<"R", "E", "T", "A", "I", "L">>

Savings == <<"S", "A", "V", "I", "N", "G", "S">>

Bedrift == <<"B", "E", "D", "R", "I", "F", "T">>

Kunde001 == <<"0", "0", "1">>

Kunde002 == <<"0", "0", "2">>

Kunde003 == <<"0", "0", "3">>

Org777 == <<"0", "0", "0", "0", "0", "0", "0", "0", "7", "7", "7">>

Org888 == <<"0", "0", "0", "0", "0", "0", "0", "0", "8", "8", "8">>

Ann == <<"A", "n", "n">>

Bob == <<"B", "o", "b">>

Header3 == <<KeyColumn, Navn, Kategori>>

Csv(header, lines) == [ragged |-> FALSE, header |-> header, lines |-> lines]

\* category RETAIL, customer 001
FileRetail == Csv(Header3, <<<<Kunde001, Ann, Retail>>>>)

\* category SAVINGS (padded with blanks in its first line), customers 001 and 002
FileSavings == Csv(Header3, <<<<Kunde001, Ann, <<" ">> \o Savings \o <<" ">>>>,
                             <<Kunde002, Bob, Savings>>>>)

\* category RETAIL with one more column, customer 002 without a name
FileRetailWide == Csv(<<KeyColumn, Navn, Kategori, Epost>>,
                      <<<<Kunde002, <<>>, Retail, <<"b", "@", "x">>>>>>)

\* category BEDRIFT, organizations 777 and 888
FileBedrift == Csv(Header3, <<<<Org777, Ann, Bedrift>>, <<Org888, Bob, Bedrift>>>>)

\* category RETAIL, customer 001, in a file whose third column is itself
\* named RETAIL
FileRetailNamed == Csv(<<KeyColumn, Navn, Retail>>, <<<<Kunde001, Ann, Retail>>>>)

\* a header and no line
FileNoRows == Csv(Header3, <<>>)

\* no header at all (a file of zero bytes)
FileZeroBytes == Csv(<<>>, <<>>)

\* two columns only
FileNarrow == Csv(<<KeyColumn, Navn>>, <<<<Kunde001, Ann>>>>)

\* the category field of the first line is empty
FileNoLabel == Csv(Header3, <<<<Kunde003, Bob, <<>>>>>>)

\* a line with more fields than the lines before it
FileRagged == [ragged |-> TRUE, header |-> Header3, lines |-> <<>>]

\* Every file is sound.
DiskGood ==
    [f \in DirUniverse |->
        IF f \in {Bm1234, Bm5678} THEN FileBedrift
        ELSE IF f = Pm5678 THEN FileSavings ELSE FileRetail]

\* The PM file of bank 1234 has no data row.
DiskNoRows == [DiskGood EXCEPT ![Pm1234] = FileNoRows]

\* The BM file of bank 1234 cannot be parsed, the PM file of bank 5678 has
\* two columns.
DiskBroken == [DiskGood EXCEPT ![Bm1234] = FileRagged, ![Pm5678] = FileNarrow]

Disks == {DiskGood, DiskNoRows, DiskBroken}

PacRow(bank, foretak, person, avtale, role) ==
    [BANK_ID |-> bank, FORETAKSNR |-> foretak, PERSONNR |-> person,
     AVTALE_ID |-> avtale, BRUKERTYPE |-> role]

Pac1234 == [readable |-> TRUE,
            rows |-> <<PacRow(Bank1234, <<"7", "7", "7">>, <<"P", "1">>, <<"A", "1">>, <<"A", "D", "M">>)>>]

PacUnreadable == [readable |-> FALSE, rows |-> <<>>]

PacFiles == {Pac1234, PacUnreadable}

\* only_bank (<<>> when the option is not given), skip_pm, skip_bm
ArgSets == {<<<<>>, FALSE, FALSE>>, <<Bank5678, FALSE, FALSE>>,
            <<<<>>, TRUE, FALSE>>, <<<<>>, FALSE, TRUE>>}

\* The sequences without repetition of at most n elements of S.
RECURSIVE Listings(_, _)
Listings(S, n) ==
    IF n = 0 THEN {<<>>}
    ELSE LET shorter == Listings(S, n - 1)
         IN shorter \cup UNION {{Append(l, f) : f \in S \ Range(l)} :
                                  l \in {m \in shorter : Len(m) = n - 1}}

(***************************************************************************)
(* main: the state of a run.                                               *)
(***************************************************************************)
VARIABLES
    base_dir,        \* [readable, names]: what os.listdir(base_dir) does
    files,           \* the content of every file of the directory
    pac_file,        \* the PAC export
    only_bank,       \* --only-bank, <<>> when not given
    skip_pm,         \* --skip-pm
    skip_bm,         \* --skip-bm
    pc,              \* where main is
    bank_files,      \* the dict scan_bank_files returned
    todo,            \* the banks the loop of line 268 has still to visit
    summary_report,  \* the global summary_report
    started,         \* the flows called so far, <<bank, "pm" or "bm">>
    caught,          \* the flows whose exception lines 274-280 logged
    saved,           \* the spreadsheets written, [bank, flow, df]
    printed,         \* print_final_summary was called
    exit_code,       \* <<>> while running, then <<0>> or <<1>>
    critical,        \* the exception the handler of line 284 caught, "" for none
    \* process_csv_files_for_bank followed by merge_grouped_duplicates
    file_list,       \* the file_list argument
    done,            \* how many files of file_list the loop of line 81 has handled
    merged_df,       \* the loop's merged_df
    entry,           \* summary_report[bank_id]
    origin,          \* for every row of merged_df, the category of the file it came from
    reconciled,      \* <<>>, then the result of merge_grouped_duplicates(merged_df)
    \* merge_grouped_duplicates alone
    dedup_in,        \* the frame given
    dedup_out,       \* <<>>, then the result
    \* enrich_with_pac_data alone
    enrich_in,       \* the frame given
    enrich_pac,      \* the PAC export given
    enrich_out       \* <<>>, then the result

mainVars == <<base_dir, files, pac_file, only_bank, skip_pm, skip_bm, pc, bank_files,
              todo, summary_report, started, caught, saved, printed, exit_code,
              critical>>

mergeVars == <<file_list, done, merged_df, entry, origin, reconciled>>

dedupVars == <<dedup_in, dedup_out>>

enrichVars == <<enrich_in, enrich_pac, enrich_out>>

vars == <<mainVars, mergeVars, dedupVars, enrichVars>>

MainStart ==
    /\ pc = "scan"
    /\ bank_files = <<>>
    /\ todo = <<>>
    /\ summary_report = <<>>
    /\ started = <<>>
    /\ caught = <<>>
    /\ saved = {}
    /\ printed = FALSE
    /\ exit_code = <<>>
    /\ critical = ""

\* The variables of an operation the specification does not run.
MainIdle ==
    /\ base_dir = [readable |-> TRUE, names |-> <<>>]
    /\ files = DiskGood
    /\ pac_file = PacUnreadable
    /\ only_bank = <<>>
    /\ skip_pm = FALSE
    /\ skip_bm = FALSE
    /\ MainStart

MergeIdle ==
    /\ file_list = <<>>
    /\ done = 0
    /\ merged_df = EmptyFrame
    /\ entry = DefaultEntry
    /\ origin = <<>>
    /\ reconciled = <<>>

DedupIdle ==
    /\ dedup_in = EmptyFrame
    /\ dedup_out = <<>>

EnrichIdle ==
    /\ enrich_in = EmptyFrame
    /\ enrich_pac = PacUnreadable
    /\ enrich_out = <<>>

Init ==
    /\ base_dir \in {[readable |-> FALSE, names |-> <<>>]}
                    \cup {[readable |-> TRUE, names |-> l] :
                            l \in Listings(DirUniverse, MaxDirFiles)}
    /\ files \in Disks
    /\ pac_file \in PacFiles
    /\ \E a \in ArgSets : only_bank = a[1] /\ skip_pm = a[2] /\ skip_bm = a[3]
    /\ MainStart
    /\ MergeIdle
    /\ DedupIdle
    /\ EnrichIdle

\* lines 284-286: the critical error is logged and the process exits with 1
Fatal(exc) ==
    /\ pc' = "exited"
    /\ exit_code' = <<1>>
    /\ critical' = exc

\* line 265, with the handler of lines 284-286
Scan ==
    /\ pc = "scan"
    /\ IF base_dir.readable
       THEN /\ bank_files' = scan_bank_files(base_dir.names)
            /\ pc' = "check"
            /\ UNCHANGED <<exit_code, critical>>
       ELSE /\ Fatal("OSError")
            /\ UNCHANGED bank_files
    /\ UNCHANGED <<base_dir, files, pac_file, only_bank, skip_pm, skip_bm, todo,
                   summary_report, started, caught, saved, printed>>
    /\ UNCHANGED <<mergeVars, dedupVars, enrichVars>>

\* line 266 and the start of the loop of line 268, with the handler of
\* lines 284-286
Check ==
    /\ pc = "check"
    /\ IF check_bank_file_consistency(bank_files) = "ok"
       THEN /\ todo' = SortedTexts(Range(DictKeys(bank_files)))
            /\ pc' = "pm"
            /\ UNCHANGED <<exit_code, critical>>
       ELSE /\ Fatal(check_bank_file_consistency(bank_files))
            /\ UNCHANGED todo
    /\ UNCHANGED <<base_dir, files, pac_file, only_bank, skip_pm, skip_bm, bank_files,
                   summary_report, started, caught, saved, printed>>
    /\ UNCHANGED <<mergeVars, dedupVars, enrichVars>>

\* lines 269-270: a bank other than --only-bank is passed over
SkipBank ==
    /\ pc = "pm"
    /\ todo # <<>>
    /\ only_bank # <<>> /\ Head(todo) # only_bank
    /\ todo' = Tail(todo)
    /\ UNCHANGED <<base_dir, files, pac_file, only_bank, skip_pm, skip_bm, pc, bank_files,
                   summary_report, started, caught, saved, printed, exit_code, critical>>
    /\ UNCHANGED <<mergeVars, dedupVars, enrichVars>>

\* What a flow's call leaves: flow is "pm" or "bm", r the flow's result.
AfterFlow(bank_id, flow, r, next) ==
    /\ started' = Append(started, <<bank_id, flow>>)
    /\ summary_report' = r.report
    /\ saved' = IF r.outcome = "saved"
                THEN saved \cup {[bank |-> bank_id, flow |-> flow, df |-> r.output[1]]}
                ELSE saved
    /\ IF r.outcome = "raised"
       THEN IF FlowExcept(r.outcome) = "continue"
            THEN /\ caught' = Append(caught, <<bank_id, flow>>)
                 /\ pc' = next
                 /\ UNCHANGED <<exit_code, critical>>
            ELSE /\ Fatal("FlowError")
                 /\ UNCHANGED caught
       ELSE /\ pc' = next
            /\ UNCHANGED <<caught, exit_code, critical>>

\* lines 271-275
PmFlow ==
    /\ pc = "pm"
    /\ todo # <<>>
    /\ ~(only_bank # <<>> /\ Head(todo) # only_bank)
    /\ IF ~skip_pm
       THEN AfterFlow(Head(todo), "pm",
                      run_pm_flow(Head(todo), files, bank_files, summary_report), "bm")
       ELSE /\ pc' = "bm"
            /\ UNCHANGED <<summary_report, started, caught, saved, exit_code, critical>>
    /\ UNCHANGED <<base_dir, files, pac_file, only_bank, skip_pm, skip_bm, bank_files,
                   todo, printed>>
    /\ UNCHANGED <<mergeVars, dedupVars, enrichVars>>

\* lines 276-280, and the loop's step to the next bank
BmFlow ==
    /\ pc = "bm"
    /\ IF ~skip_bm
       THEN AfterFlow(Head(todo), "bm",
                      run_bm_flow(Head(todo), files, bank_files, summary_report, pac_file),
                      "pm")
       ELSE /\ pc' = "pm"
            /\ UNCHANGED <<summary_report, started, caught, saved, exit_code, critical>>
    /\ todo' = Tail(todo)
    /\ UNCHANGED <<base_dir, files, pac_file, only_bank, skip_pm, skip_bm, bank_files,
                   printed>>
    /\ UNCHANGED <<mergeVars, dedupVars, enrichVars>>

\* line 282, and the normal end of main
PrintFinalSummary ==
    /\ pc = "pm"
    /\ todo = <<>>
    /\ printed' = TRUE
    /\ pc' = "done"
    /\ exit_code' = <<0>>
    /\ UNCHANGED <<base_dir, files, pac_file, only_bank, skip_pm, skip_bm, bank_files,
                   todo, summary_report, started, caught, saved, critical>>
    /\ UNCHANGED <<mergeVars, dedupVars, enrichVars>>

Next == Scan \/ Check \/ SkipBank \/ PmFlow \/ BmFlow \/ PrintFinalSummary

Spec == Init /\ [][Next]_vars

(***************************************************************************)
(* process_csv_files_for_bank on a list of files, one file of the loop at  *)
(* a time, then merge_grouped_duplicates on the merged table.              *)
(***************************************************************************)
NameA == <<"X", ".", "B", "1", "2", "3", "4", ".", "A", ".", "C", "S", "V">>

NameB == <<"X", ".", "B", "1", "2", "3", "4", ".", "B", ".", "C", "S", "V">>

NameC == <<"X", ".", "B", "1", "2", "3", "4", ".", "C", ".", "C", "S", "V">>

NameD == <<"X", ".", "B", "1", "2", "3", "4", ".", "D", ".", "C", "S", "V">>

NameE == <<"X", ".", "B", "1", "2", "3", "4", ".", "E", ".", "C", "S", "V">>

NameF == <<"X", ".", "B", "1", "2", "3", "4", ".", "F", ".", "C", "S", "V">>

NameG == <<"X", ".", "B", "1", "2", "3", "4", ".", "G", ".", "C", "S", "V">>

NameH == <<"X", ".", "B", "1", "2", "3", "4", ".", "H", ".", "C", "S", "V">>

NameI == <<"X", ".", "B", "1", "2", "3", "4", ".", "I", ".", "C", "S", "V">>

MergeNames == {NameA, NameB, NameC, NameD, NameE, NameF, NameG, NameH, NameI}

MergeDisk ==
    [f \in MergeNames |->
        CASE f = NameA -> FileRetail
          [] f = NameB -> FileSavings
          [] f = NameC -> FileRetailWide
          [] f = NameD -> FileNoRows
          [] f = NameE -> FileZeroBytes
          [] f = NameF -> FileNarrow
          [] f = NameG -> FileNoLabel
          [] f = NameH -> FileRagged
          [] f = NameI -> FileRetailNamed]

InitMerge ==
    /\ file_list \in Listings(MergeNames, MaxMergeFiles) \ {<<>>}
    /\ done = 0
    /\ merged_df = EmptyFrame
    /\ entry = DefaultEntry
    /\ origin = <<>>
    /\ reconciled = <<>>
    /\ MainIdle
    /\ DedupIdle
    /\ EnrichIdle

\* one iteration of the loop of lines 81-107
ProcessNextFile ==
    /\ done < Len(file_list)
    /\ reconciled = <<>>
    /\ LET filename == file_list[done + 1]
           st == ProcessFile([merged_df |-> merged_df, entry |-> entry], filename,
                             MergeDisk[filename])
       IN /\ merged_df' = st.merged_df
          /\ entry' = st.entry
          /\ origin' = origin \o [r \in 1..(Len(st.merged_df.data) - Len(merged_df.data)) |->
                                    st.entry.merged[Len(st.entry.merged)]]
    /\ done' = done + 1
    /\ UNCHANGED <<file_list, reconciled, mainVars, dedupVars, enrichVars>>

\* line 184 (line 198): merge_grouped_duplicates on what the loop returned
Reconcile ==
    /\ done = Len(file_list)
    /\ reconciled = <<>>
    /\ reconciled' = <<merge_grouped_duplicates(merged_df)>>
    /\ UNCHANGED <<file_list, done, merged_df, entry, origin, mainVars, dedupVars,
                   enrichVars>>

NextMerge == ProcessNextFile \/ Reconcile

SpecMerge == InitMerge /\ [][NextMerge]_vars
(***************************************************************************)
(* merge_grouped_duplicates on the tables of three columns: the customer   *)
(* key, a name that may be missing, a flag.                                *)
(***************************************************************************)
DedupRows == {<<k, n, f>> : k \in {Kunde001, Kunde002}, n \in {NaN, Ann, Bob, N},
                            f \in {J, N}}

\* The sequences of 1 to n elements of S.
SeqsUpTo(S, n) == UNION {[1..k -> S] : k \in 1..n}

InitDedup ==
    /\ dedup_in \in {[columns |-> <<KeyColumn, Navn, Retail>>, data |-> d] :
                       d \in SeqsUpTo(DedupRows, MaxDedupRows)}
    /\ dedup_out = <<>>
    /\ MainIdle
    /\ MergeIdle
    /\ EnrichIdle

Dedup ==
    /\ dedup_out = <<>>
    /\ dedup_out' = <<merge_grouped_duplicates(dedup_in)>>
    /\ UNCHANGED <<dedup_in, mainVars, mergeVars, enrichVars>>

NextDedup == Dedup

SpecDedup == InitDedup /\ [][NextDedup]_vars

(***************************************************************************)
(* enrich_with_pac_data for bank 1234 on reconciled tables of business     *)
(* customers and PAC exports of a few rows.                                *)
(***************************************************************************)
Short777 == <<"7", "7", "7">>

Short888 == <<"8", "8", "8">>

BedriftFrame(rows) == [columns |-> <<KeyColumn, Navn, Bedrift>>, data |-> rows]

EnrichFrames == {BedriftFrame(<<<<Org777, Ann, J>>>>),
                 BedriftFrame(<<<<Org777, Ann, J>>, <<Org888, Bob, J>>>>),
                 BedriftFrame(<<<<Short777, Ann, J>>, <<Org888, Bob, J>>>>)}

PacRows == {PacRow(b, f, <<"P", "1">>, a, r) :
              b \in {Bank1234, Bank5678}, f \in {Short777, Short888},
              a \in {<<"A", "1">>, <<"A", "2">>}, r \in {<<"A", "D", "M">>, NaN}}

InitEnrich ==
    /\ enrich_in \in EnrichFrames
    /\ enrich_pac \in {[readable |-> TRUE, rows |-> rs] :
                         rs \in {<<>>} \cup SeqsUpTo(PacRows, MaxPacRows)}
    /\ enrich_out = <<>>
    /\ MainIdle
    /\ MergeIdle
    /\ DedupIdle

Enrich ==
    /\ enrich_out = <<>>
    /\ enrich_out' = <<enrich_with_pac_data(enrich_in, Bank1234, enrich_pac)>>
    /\ UNCHANGED <<enrich_in, enrich_pac, mainVars, mergeVars, dedupVars>>

NextEnrich == Enrich

SpecEnrich == InitEnrich /\ [][NextEnrich]_vars
(***************************************************************************)
(* Properties of a run (Spec).                                             *)
(***************************************************************************)
\* The ShapeKeys of a bank's files: the names with the bank digits masked.
ShapeKeys(file_names) == {MaskBankId(f) : f \in Range(file_names)}

AllShapesEqual(index) ==
    \A i \in 1..Len(index) : ShapeKeys(index[i].value) = ShapeKeys(index[1].value)

\* The index the scan of the run's directory gives.
Scanned == scan_bank_files(base_dir.names)

\* check_bank_file_consistency has been called and has returned or raised.
CheckActed == base_dir.readable /\ pc \notin {"scan", "check"}

CheckSucceeded == CheckActed /\ critical \notin {"StopIteration", "ValueError"}

\* C1: on a non-empty index check_bank_file_consistency succeeds if and only
\* if every bank's set of masked file names equals that of the first bank of
\* the index, and it always succeeds on an index of one bank.
C1_ConsistencyIff ==
    (CheckActed /\ bank_files # <<>>) =>
        /\ CheckSucceeded <=> AllShapesEqual(bank_files)
        /\ Len(bank_files) = 1 => CheckSucceeded

\* Two banks with the same shapes passed the check.
C1_Witness ==
    /\ CheckSucceeded
    /\ Len(bank_files) = 2
    /\ Len(bank_files[1].value) = 2
    /\ bank_files[1].value # bank_files[2].value

\* The scan or the consistency check of the run fails: the directory cannot
\* be read, no bank is found, or a bank's shapes differ from the reference's.
ScanOrCheckFails ==
    \/ ~base_dir.readable
    \/ Scanned = <<>>
    \/ ~AllShapesEqual(Scanned)

\* C2: a failure of the scan or of the consistency check ends the run with
\* exit code 1 before any PM or BM flow is started for any bank, whatever
\* --only-bank says.
C2_FatalBeforeFlows ==
    (ScanOrCheckFails /\ pc \notin {"scan", "check"}) =>
        /\ pc = "exited"
        /\ exit_code = <<1>>
        /\ started = <<>>
        /\ saved = {}
        /\ summary_report = <<>>

\* The shapes of a bank differ from the reference's in a run restricted to
\* the reference bank, whose own shapes match.
C2_Witness ==
    /\ pc = "exited"
    /\ critical = "ValueError"
    /\ only_bank # <<>>
    /\ bank_files[1].key = only_bank
    /\ exit_code = <<1>>

\* The flows main is to call, in order: for every selected bank in sorted
\* order its PM flow unless skipped, then its BM flow unless skipped.
RECURSIVE FlowsOf(_)
FlowsOf(banks) ==
    IF banks = <<>> THEN <<>>
    ELSE LET b == Head(banks)
         IN IF only_bank # <<>> /\ b # only_bank THEN FlowsOf(Tail(banks))
            ELSE (IF skip_pm THEN <<>> ELSE <<<<b, "pm">>>>)
                 \o (IF skip_bm THEN <<>> ELSE <<<<b, "bm">>>>)
                 \o FlowsOf(Tail(banks))

ExpectedFlows == FlowsOf(SortedTexts(Range(DictKeys(bank_files))))

IsPrefix(a, b) == Len(a) <= Len(b) /\ SubSeq(b, 1, Len(a)) = a

\* C3: once the scan and the check have succeeded, a failure inside a flow is
\* caught at that flow: the flows called are always the expected flows in
\* order, the run never exits with 1 and never stops before its end (main is
\* in the loop, where a step is always possible, or done), and at its end
\* every expected flow has been called, the summary is printed and the exit
\* code is 0.
C3_FlowFailureIsolated ==
    CheckSucceeded =>
        /\ Range(caught) \subseteq Range(started)
        /\ IsPrefix(started, ExpectedFlows)
        /\ exit_code # <<1>>
        /\ pc \in {"pm", "bm", "done"}
        /\ pc = "done" => started = ExpectedFlows /\ printed /\ exit_code = <<0>>
        /\ pc = "bm" => todo # <<>>

\* The PM flow of the first of two banks failed, and the run went on to the
\* bank's BM flow and to the flows of the second bank, and ended with 0.
C3_Witness ==
    /\ pc = "done"
    /\ Len(started) = 4
    /\ started[1] \in Range(caught)
    /\ started[1][2] = "pm"
    /\ started[4] \notin Range(caught)
    /\ printed
    /\ exit_code = <<0>>

EligibleFiles(bank_id, flow) ==
    list_bank_files_by_type(bank_files, bank_id, IF flow = "pm" THEN CsvExt ELSE BmExt)

\* C4: a flow with at least one eligible file does not fail whatever the
\* outcomes of its files: it is not caught as a flow-level error and its
\* spreadsheet is written.  (The BM flows are those of runs whose PAC export
\* can be read.)
C4_FilesNeverFailTheFlow ==
    \A i \in 1..Len(started) :
        LET b == started[i][1]
            flow == started[i][2]
        IN (EligibleFiles(b, flow) # <<>> /\ (flow = "bm" => pac_file.readable)) =>
              /\ started[i] \notin Range(caught)
              /\ \E o \in saved : o.bank = b /\ o.flow = flow

\* Both flows of the bank were called, each with at least one eligible file.
BothFlowsRan(b) ==
    /\ <<b, "pm">> \in Range(started)
    /\ <<b, "bm">> \in Range(started)
    /\ EligibleFiles(b, "pm") # <<>>
    /\ EligibleFiles(b, "bm") # <<>>

\* What one pass of process_csv_files_for_bank over the flow's files records
\* in a fresh entry.
PassEntry(b, flow) ==
    process_csv_files_for_bank(files, EligibleFiles(b, flow), DefaultEntry).entry

SavedColumns(b, flow) ==
    IF \E o \in saved : o.bank = b /\ o.flow = flow
    THEN Range((CHOOSE o \in saved : o.bank = b /\ o.flow = flow).df.columns)
    ELSE {}

HasSaved(b, flow) == \E o \in saved : o.bank = b /\ o.flow = flow

\* The columns of the table the flow summarised: those of its spreadsheet
\* without the Category_Count column summarize_dataset added to it.
SummarisedColumns(b, flow) == SavedColumns(b, flow) \ {CategoryCountColumn}

\* C10 as stated: after the BM flow of a bank whose PM flow ran too, the
\* entry's merged, missing, errors and columns are those of the BM pass only.
C10_BmOverwrites ==
    \A b \in Range(DictKeys(bank_files)) :
        BothFlowsRan(b) =>
            LET e == DictGet(summary_report, b, DefaultEntry)
            IN /\ e.merged = PassEntry(b, "bm").merged
               /\ e.missing = PassEntry(b, "bm").missing
               /\ e.errors = PassEntry(b, "bm").errors
               /\ HasSaved(b, "bm") => Range(e.columns) = SummarisedColumns(b, "bm")

\* C10 amended: the BM flow appends to the merged, missing and errors lists
\* the PM flow left, so that they hold the PM pass's values followed by the
\* BM pass's; columns alone is overwritten, by the last flow of the two that
\* reached summarize_dataset.
C10_BmAppends ==
    \A b \in Range(DictKeys(bank_files)) :
        BothFlowsRan(b) =>
            LET e == DictGet(summary_report, b, DefaultEntry)
            IN /\ e.merged = PassEntry(b, "pm").merged \o PassEntry(b, "bm").merged
               /\ e.missing = PassEntry(b, "pm").missing \o PassEntry(b, "bm").missing
               /\ e.errors = PassEntry(b, "pm").errors \o PassEntry(b, "bm").errors
               /\ Len(e.columns) = Cardinality(Range(e.columns))
               /\ Range(e.columns) =
                    IF HasSaved(b, "bm") THEN SummarisedColumns(b, "bm")
                    ELSE SummarisedColumns(b, "pm")

\* Both flows of a bank merged a category and wrote their spreadsheet.
C10_Witness ==
    \E b \in Range(DictKeys(bank_files)) :
        /\ BothFlowsRan(b)
        /\ PassEntry(b, "pm").merged # <<>>
        /\ PassEntry(b, "bm").merged # <<>>
        /\ HasSaved(b, "pm")
        /\ HasSaved(b, "bm")
        /\ CategoryCountColumn \in SavedColumns(b, "pm") \cap SavedColumns(b, "bm")
        /\ SummarisedColumns(b, "pm") # SummarisedColumns(b, "bm")
(***************************************************************************)
(* Properties of process_csv_files_for_bank and of the reconciliation that *)
(* follows it (SpecMerge).                                                 *)
(***************************************************************************)
\* What a file is, read off its content.
ZeroRows(f) == ~f.ragged /\ f.lines = <<>>

TooNarrow(f) == ~f.ragged /\ f.lines # <<>> /\ Len(f.header) < 3

Sound(f) ==
    /\ ~f.ragged
    /\ f.lines # <<>>
    /\ Len(f.header) >= 3
    /\ f.lines[1][3] \notin NaValues

\* The names, in list order, of the files handled so far that are among names.
HandledWhere(names) ==
    SelectIdx([i \in 1..done |-> file_list[i]], {i \in 1..done : file_list[i] \in names})

LabelOf(f) == Strip(f.lines[1][3])

RECURSIVE SumRows(_)
SumRows(names) ==
    IF names = <<>> THEN 0 ELSE Len(MergeDisk[Head(names)].lines) + SumRows(Tail(names))

\* C5 as stated: a file of zero rows is recorded under missing, a file that
\* fails in any other way under errors and never under missing, a file
\* processed without failure adds its category to merged; failed files add
\* no row, and the next file is processed.
C5_OtherFailuresAreErrors ==
    LET sound == HandledWhere({n \in DOMAIN MergeDisk : Sound(MergeDisk[n])})
    IN /\ entry.missing = HandledWhere({n \in DOMAIN MergeDisk : ZeroRows(MergeDisk[n])})
       /\ entry.errors = HandledWhere({n \in DOMAIN MergeDisk :
                                      ~ZeroRows(MergeDisk[n]) /\ ~Sound(MergeDisk[n])})
       /\ entry.merged = [i \in 1..Len(sound) |-> LabelOf(MergeDisk[sound[i]])]
       /\ Len(merged_df.data) = SumRows(sound)

\* C5 amended: a file of zero rows, and also a file with rows but fewer
\* than three columns (its IndexError says "out of bounds"), is recorded
\* under missing; a file that fails in any other way is recorded under
\* errors; a file processed without failure adds its category to merged.
\* Every file of the list is handled in list order and ends in exactly one
\* of the three, failed files add no row, and the loop goes on to the next
\* file.
C5_FileOutcomes ==
    LET sound == HandledWhere({n \in DOMAIN MergeDisk : Sound(MergeDisk[n])})
    IN /\ entry.missing = HandledWhere({n \in DOMAIN MergeDisk :
                                       ZeroRows(MergeDisk[n]) \/ TooNarrow(MergeDisk[n])})
       /\ entry.errors = HandledWhere({n \in DOMAIN MergeDisk :
                                      ~ZeroRows(MergeDisk[n]) /\ ~TooNarrow(MergeDisk[n])
                                          /\ ~Sound(MergeDisk[n])})
       /\ entry.merged = [i \in 1..Len(sound) |-> LabelOf(MergeDisk[sound[i]])]
       /\ Len(merged_df.data) = SumRows(sound)
       /\ Len(entry.missing) + Len(entry.errors) + Len(entry.merged) = done
       /\ done <= Len(file_list)
       /\ reconciled # <<>> => done = Len(file_list)

\* A file without rows, then a file that cannot be parsed, then a sound file
\* have all been handled.
C5_Witness ==
    /\ done = 3
    /\ ZeroRows(MergeDisk[file_list[1]])
    /\ MergeDisk[file_list[2]].ragged
    /\ Sound(MergeDisk[file_list[3]])
    /\ Len(entry.missing) = 1
    /\ Len(entry.errors) = 1
    /\ Len(entry.merged) = 1
    /\ merged_df.data # <<>>

\* C6: the merged table has one flag column per category merged, and every
\* row holds "J" in the flag column of the category of the file it came from
\* and "N" in the flag columns of the other categories, whether their files
\* were merged before or after.  Lines 88-89 set the flag column and then
\* drop the third column by name: a file whose third column is named after
\* its own category label loses the flag it was just given.
C6_FlagColumns ==
    /\ Len(origin) = Len(merged_df.data)
    /\ Len(merged_df.columns) = Cardinality(Range(merged_df.columns))
    /\ \A label \in Range(entry.merged) :
          /\ HasColumn(merged_df, label)
          /\ \A r \in 1..Len(merged_df.data) :
                merged_df.data[r][ColumnIndex(merged_df, label)] =
                    IF origin[r] = label THEN J ELSE N

Reverse(seq) == [i \in 1..Len(seq) |-> seq[Len(seq) + 1 - i]]

\* The flag values of a reconciled table: <<customer key, category, value>>
\* for the categories that have a column in it.
FlagValues(df, labels) ==
    {<<df.data[r][ColumnIndex(df, KeyColumn)], label,
       df.data[r][ColumnIndex(df, label)]>> :
          r \in 1..Len(df.data), label \in labels \cap Range(df.columns)}

\* merge_grouped_duplicates(process_csv_files_for_bank(file_list in the
\* opposite order))
ReconciledReversed ==
    merge_grouped_duplicates(
        process_csv_files_for_bank(MergeDisk, Reverse(file_list), DefaultEntry).merged_df)

\* C7: merging the files in the opposite order and reconciling gives the
\* same set of columns and the same flag values per customer key; for the
\* file of RETAIL with customer 001 and the file of SAVINGS with customers
\* 001 and 002 both orders give 2 rows, 001 with RETAIL "J" and SAVINGS "J",
\* 002 with RETAIL "N" and SAVINGS "J".
C7_OrderIndependent ==
    reconciled # <<>> =>
        LET this == reconciled[1]
            other == ReconciledReversed
            labels == Range(entry.merged)
        IN /\ this.raised = other.raised
           /\ ~this.raised =>
                /\ Range(this.df.columns) = Range(other.df.columns)
                /\ Len(this.df.data) = Len(other.df.data)
                /\ FlagValues(this.df, labels) = FlagValues(other.df, labels)
           /\ Range(file_list) = {NameA, NameB} =>
                /\ Len(this.df.data) = 2
                /\ FlagValues(this.df, labels) =
                     {<<Kunde001, Retail, J>>, <<Kunde001, Savings, J>>,
                      <<Kunde002, Retail, N>>, <<Kunde002, Savings, J>>}

\* The RETAIL file then the SAVINGS file were merged and reconciled.
C7_Witness ==
    /\ reconciled # <<>>
    /\ file_list = <<NameA, NameB>>
    /\ ~reconciled[1].raised
    /\ Len(merged_df.data) = 3
    /\ Len(reconciled[1].df.data) = 2
(***************************************************************************)
(* Properties of merge_grouped_duplicates (SpecDedup).                     *)
(***************************************************************************)
\* The rows of the input with customer key k, by position.
RowsOfKey(k) == {r \in 1..Len(dedup_in.data) : dedup_in.data[r][1] = k}

\* The columns of the input classified dynamic: all their values are among
\* "J", "N", "" or missing.
DynamicColumn(c) ==
    \A r \in 1..Len(dedup_in.data) : dedup_in.data[r][c] \in {J, N, EmptyText, NaN}

\* C8: for every customer key of the input the output has exactly one row;
\* in it every dynamic column is "J" if one of the key's rows has "J" there
\* and "N" otherwise, and every fixed column holds the first value among the
\* key's rows that is not missing, a value of one of those rows.
C8_OneRowPerKey ==
    dedup_out # <<>> =>
        LET out == dedup_out[1].df
        IN /\ ~dedup_out[1].raised
           /\ out.columns = dedup_in.columns
           /\ \A k \in {Kunde001, Kunde002} :
                Cardinality({g \in 1..Len(out.data) : out.data[g][1] = k}) =
                    IF RowsOfKey(k) = {} THEN 0 ELSE 1
           /\ \A g \in 1..Len(out.data) :
                LET rows == RowsOfKey(out.data[g][1])
                IN /\ rows # {}
                   /\ \A c \in 1..Len(out.columns) :
                        IF DynamicColumn(c)
                        THEN out.data[g][c] =
                               IF \E r \in rows : dedup_in.data[r][c] = J THEN J ELSE N
                        ELSE /\ out.data[g][c] \in {dedup_in.data[r][c] : r \in rows}
                             /\ \A r \in rows :
                                   (/\ dedup_in.data[r][c] # NaN
                                    /\ \A q \in rows : q < r => dedup_in.data[q][c] = NaN)
                                   => out.data[g][c] = dedup_in.data[r][c]

\* A customer of three rows, the name missing in the first and present in
\* the next two, the flag "N" in the first and "J" in a later one, became
\* one row.
C8_Witness ==
    /\ dedup_out # <<>>
    /\ Len(dedup_in.data) = 3
    /\ \A r \in 1..3 : dedup_in.data[r][1] = Kunde001
    /\ dedup_in.data[1][2] = NaN
    /\ dedup_in.data[2][2] = Bob
    /\ dedup_in.data[3][2] = Ann
    /\ dedup_in.data[1][3] = N
    /\ dedup_in.data[3][3] = J
    /\ dedup_out[1].df.data = <<<<Kunde001, Bob, J>>>>

(***************************************************************************)
(* Properties of enrich_with_pac_data (SpecEnrich).                        *)
(***************************************************************************)
\* The rows of the PAC export that are of bank 1234, by position.
PacRowsOfBank == {i \in 1..Len(enrich_pac.rows) : enrich_pac.rows[i].BANK_ID = Bank1234}

\* The organization number of a PAC row, zero-padded to eleven characters.
OrgNumber(i) ==
    LET f == enrich_pac.rows[i].FORETAKSNR
    IN IF Len(f) >= 11 THEN f ELSE [j \in 1..(11 - Len(f)) |-> "0"] \o f

RoleText(i) ==
    IF enrich_pac.rows[i].BRUKERTYPE = NaN THEN <<"n", "a", "n">>
    ELSE enrich_pac.rows[i].BRUKERTYPE

\* The person:role strings of the rows in S, in row order, joined by "|".
RECURSIVE UsersOf(_)
UsersOf(S) ==
    IF S = {} THEN <<>>
    ELSE LET i == CHOOSE x \in S : \A y \in S : x <= y
             one == enrich_pac.rows[i].PERSONNR \o <<":">> \o RoleText(i)
         IN IF S = {i} THEN one ELSE one \o <<"|">> \o UsersOf(S \ {i})

\* C9: when the bank has rows in the PAC export, a customer whose key is no
\* organization number of the bank gets the empty string in both derived
\* columns, and a matching customer gets the sorted set of the
\* organization's relationship identifiers and its person:role strings in
\* row order, both joined by "|"; when the bank has no row, the table is
\* returned as it was, without the derived columns.
C9_Enrichment ==
    enrich_out # <<>> =>
        LET out == enrich_out[1].df
        IN /\ ~enrich_out[1].raised
           /\ PacRowsOfBank = {} => out = enrich_in
           /\ PacRowsOfBank # {} =>
                /\ out.columns = enrich_in.columns \o <<AvtaleColumn, UsersColumn>>
                /\ Len(out.data) = Len(enrich_in.data)
                /\ \A r \in 1..Len(out.data) :
                     LET kunde == enrich_in.data[r][1]
                         matching == {i \in PacRowsOfBank : OrgNumber(i) = kunde}
                     IN /\ SubSeq(out.data[r], 1, 3) = enrich_in.data[r]
                        /\ matching = {} =>
                             out.data[r][4] = EmptyText /\ out.data[r][5] = EmptyText
                        /\ matching # {} =>
                             /\ out.data[r][4] =
                                  Join(<<"|">>, SortedTexts({enrich_pac.rows[i].AVTALE_ID :
                                                               i \in matching}))
                             /\ out.data[r][5] = UsersOf(matching)

\* Two PAC rows of the bank match one customer, their identifiers out of
\* order, and another customer of the table matches none.
C9_Witness ==
    /\ enrich_out # <<>>
    /\ Len(enrich_in.data) = 2
    /\ Len(enrich_pac.rows) = 2
    /\ PacRowsOfBank = {1, 2}
    /\ enrich_out[1].df.data[1][4] = <<"A", "1", "|", "A", "2">>
    /\ enrich_pac.rows[1].AVTALE_ID = <<"A", "2">>
    /\ enrich_out[1].df.data[1][5] = <<"P", "1", ":", "n", "a", "n", "|", "P", "1", ":", "A", "D", "M">>
    /\ enrich_out[1].df.data[2][4] = EmptyText
    /\ enrich_out[1].df.data[2][5] = EmptyText
====
